---------------------------- MODULE Spec2Model ----------------------------
(***************************************************************************)
(* The ImageUpload component of packages/ui/src/ImageUpload/index.js as a  *)
(* state machine.  Strings are sequences of one-character strings, so that *)
(* the pattern built by hasExtension and the String.replace of readFile    *)
(* are computed character by character, as the JavaScript does.            *)
(*                                                                         *)
(* One step of the machine is one JavaScript task: an event handler, a     *)
(* promise reaction, a timer callback or a setState callback runs to       *)
(* completion, and the state updates it issued are applied when it ends.   *)
(* The callback of the setState of handleError runs before any other task, *)
(* so while it is pending (blip) no other action is enabled.               *)
(* Time is counted in seconds by the action Tick; a timer may run late,    *)
(* never early.                                                            *)
(*                                                                         *)
(* The environment: the props do not change during a behaviour; the file   *)
(* input delivers change events only while it is mounted; imageUpload      *)
(* returns a promise, which resolves, rejects or stays pending; the        *)
(* upload routine reports progress while its promise is pending; a         *)
(* FileReader that loads produces a data: URL with a ;base64 marker (a     *)
(* read that fails has no handler in readFile and is a reader that never   *)
(* loads); imageUploaded may throw.                                        *)
(***************************************************************************)
EXTENDS Integers, Sequences, FiniteSets, TLC

VARIABLES
  props,       \* this.props: the configuration given by the embedder
  state,       \* this.state: isUploading, hasError, errorText, progress
  blip,        \* TRUE while the setState callback of handleError is pending
  timers,      \* the pending setTimeout callbacks of handleError: seconds left
  reads,       \* the FileReaders made by readFile, with their result
  uploads,     \* the promises returned by imageUpload, with their state
  calls,       \* history: the invocations of each callback of the embedder
  sels,        \* history: the classification of every selection event
  sinceError   \* history: seconds since the last call of handleError

vars == <<props, state, blip, timers, reads, uploads, calls, sels, sinceError>>

---------------------------------------------------------------------------
(* Bounds of the model.                                                    *)

MaxSelections == 2   \* file-selection events handled in one behaviour
MaxExts       == 1   \* entries of allowedExtensions (validation inputs)
MaxExtLen     == 1   \* characters of one entry of allowedExtensions
MaxNameLen    == 2   \* characters of a file name (validation inputs)
MaxPrefixLen  == 2   \* characters before ".png" in a name given to readFile
MaxErrorCode  == 5   \* largest error code given to handleError on its own

---------------------------------------------------------------------------
(* Constants of the program.                                               *)

NO_FILE_ERROR_CODE       == 1
BAD_EXTENSION_ERROR_CODE == 2
TOO_BIG_ERROR_CODE       == 3
UPLOADING_ERROR_CODE     == 4
DefaultMaxFileSize       == 5242880
ERROR_CLEAR_DELAY        == 5        \* setTimeout(..., 5000), in seconds

Undefined == <<>>     \* undefined; a defined value v is <<v>>

---------------------------------------------------------------------------
(* Strings.                                                                *)

SeqsUpTo(S, n) == UNION {[1..k -> S] : k \in 0..n}

ToLowerChar(c) ==
  CASE c = "P" -> "p"
    [] c = "N" -> "n"
    [] c = "G" -> "g"
    [] OTHER   -> c

toLowerCase(s) == [i \in 1..Len(s) |-> ToLowerChar(s[i])]

RECURSIVE join(_, _)
join(list, sep) ==
  IF list = <<>> THEN <<>>
  ELSE IF Len(list) = 1 THEN list[1]
  ELSE list[1] \o <<sep>> \o join(Tail(list), sep)

\* s.replace(/\./g, '\\.'): every dot gets a backslash in front of it
RECURSIVE EscapeDots(_)
EscapeDots(s) ==
  IF s = <<>> THEN <<>>
  ELSE (IF s[1] = "." THEN <<"\\", ".">> ELSE <<s[1]>>) \o EscapeDots(Tail(s))

\* the source text of the regular expression of hasExtension
ExtensionPattern(allowedExtensions) ==
  <<"(">>
    \o EscapeDots(join([i \in 1..Len(allowedExtensions) |->
                          toLowerCase(allowedExtensions[i])], "|"))
    \o <<")", "$">>

\* The alternatives of a pattern body: split at every "|".
RECURSIVE SplitAlternatives(_, _)
SplitAlternatives(body, cur) ==
  IF body = <<>> THEN <<cur>>
  ELSE IF body[1] = "|" THEN <<cur>> \o SplitAlternatives(Tail(body), <<>>)
  ELSE IF body[1] = "\\" /\ Len(body) >= 2
       THEN SplitAlternatives(Tail(Tail(body)), cur \o <<body[2]>>)
  ELSE SplitAlternatives(Tail(body), cur \o <<body[1]>>)

\* s ends with the literal characters lit, letters compared without case
EndsWithI(s, lit) ==
  /\ Len(lit) <= Len(s)
  /\ \A i \in 1..Len(lit) :
        ToLowerChar(s[Len(s) - Len(lit) + i]) = ToLowerChar(lit[i])

\* new RegExp(pattern, 'i').test(s) for the patterns "(a1|...|an)$" whose
\* alternatives are literal characters and escaped dots
RegExpTest(pattern, s) ==
  LET body == SubSeq(pattern, 2, Len(pattern) - 2)
      alts == SplitAlternatives(body, <<>>)
  IN  \E k \in 1..Len(alts) : EndsWithI(s, alts[k])

hasExtension(fileName) ==
  RegExpTest(ExtensionPattern(props.allowedExtensions), toLowerCase(fileName))


---------------------------------------------------------------------------
(* String.prototype.replace(searchString, replaceValue), as readFile uses  *)
(* it: the first occurrence of searchString is replaced, and replaceValue  *)
(* is a replacement template in which $$, $&, $` and $' are patterns.      *)

\* the position of the first occurrence of search in s, 0 when there is none
IndexOf(s, search) ==
  LET hits == {i \in 1..(Len(s) - Len(search) + 1) :
                 SubSeq(s, i, i + Len(search) - 1) = search}
  IN  IF hits = {} THEN 0 ELSE CHOOSE i \in hits : \A j \in hits : i <= j

RECURSIVE GetSubstitution(_, _, _, _)
GetSubstitution(matched, before, after, template) ==
  IF template = <<>> THEN <<>>
  ELSE IF template[1] = "$" /\ Len(template) >= 2
            /\ template[2] \in {"$", "&", "`", "'"}
       THEN (CASE template[2] = "$" -> <<"$">>
               [] template[2] = "&" -> matched
               [] template[2] = "`" -> before
               [] template[2] = "'" -> after)
            \o GetSubstitution(matched, before, after, Tail(Tail(template)))
  ELSE <<template[1]>> \o GetSubstitution(matched, before, after, Tail(template))

StringReplace(s, search, template) ==
  LET pos == IndexOf(s, search)
  IN  IF pos = 0 THEN s
      ELSE LET before == SubSeq(s, 1, pos - 1)
               after  == SubSeq(s, pos + Len(search), Len(s))
           IN  before \o GetSubstitution(search, before, after, template) \o after

Base64Marker == <<";", "b", "a", "s", "e", "6", "4">>
NameMarker   == <<";", "n", "a", "m", "e", "=">>

\* the value readFile resolves with when the FileReader has loaded dataUrl
readFile(file, dataUrl) ==
  [file    |-> file,
   dataUrl |-> StringReplace(dataUrl, Base64Marker,
                             NameMarker \o file.name \o Base64Marker)]

---------------------------------------------------------------------------
(* The values of the environment: files, data URLs, upload outcomes.       *)

DefaultExtensions == <<<<"j", "p", "g">>, <<"j", "p", "e", "g">>, <<"p", "n", "g">>>>

CatPng   == <<"c", "a", "t", ".", "p", "n", "g">>
PhotoPNG == <<"P", "h", "o", "t", "o", ".", "P", "N", "G">>
PhotoGif == <<"p", "h", "o", "t", "o", ".", "g", "i", "f">>
DotPng   == <<".", "p", "n", "g">>

\* what FileReader.readAsDataURL produces: data:<media type>;base64,<payload>
DataPrefix == <<"d", "a", "t", "a", ":">>
MediaTypes == {<<"i", "m", "a", "g", "e", "/", "p", "n", "g">>, <<>>}
Payloads   == {<<"A", "A", "A">>, <<>>}
DataUrls   ==
  {DataPrefix \o m \o Base64Marker \o <<",">> \o p : m \in MediaTypes, p \in Payloads}
CatDataUrl == DataPrefix \o <<"i", "m", "a", "g", "e", "/", "p", "n", "g">> \o Base64Marker \o <<",", "A", "A", "A">>

Responses  == {"url1", "url2"}              \* what an upload resolves with
Rejections == {"network down"}             \* what it rejects with
Progresses == {50}                          \* what reportProgress is given


\* a file-selection event: list is FALSE when e.target.files is missing
NoFileList == [list |-> FALSE, files |-> <<>>]
EmptyList  == [list |-> TRUE,  files |-> <<>>]
EventOf(file) == [list |-> TRUE, files |-> <<file>>]

File(name, size) == [name |-> name, size |-> size]

---------------------------------------------------------------------------
(* The view.                                                               *)

\* what renderChildren returns, by the branch it takes
renderChildren ==
  IF state.isUploading THEN [kind |-> "progress", value |-> state.progress]
  ELSE IF state.hasError THEN [kind |-> "error", value |-> state.errorText]
  ELSE [kind |-> "content", value |-> <<>>]

\* render with the file input mounted whatever isUploading is
renderInputAlwaysMounted ==
  [disabled |-> state.isUploading,
   color    |-> IF state.hasError THEN "secondary" ELSE "primary",
   children |-> renderChildren,
   input    |-> TRUE]

\* what render returns: the button's attributes and whether the hidden
\* file input is mounted
render ==
  [disabled |-> state.isUploading,
   color    |-> IF state.hasError THEN "secondary" ELSE "primary",
   children |-> renderChildren,
   input    |-> ~state.isUploading]

\* the states of the view named by the specification
View ==
  CASE renderChildren.kind = "progress" -> "Uploading"
    [] renderChildren.kind = "error"    -> "Error"
    [] OTHER                            -> "Idle"

---------------------------------------------------------------------------
(* The initial state.                                                      *)

constructor ==
  [isUploading |-> FALSE, hasError |-> FALSE, errorText |-> "",
   progress |-> Undefined]

defaultProps ==
  [allowedExtensions |-> DefaultExtensions, maxFileSize |-> DefaultMaxFileSize]

\* the props with the given callbacks configured
Props(exts, max, loaded, upload, uploaded, uploadError) ==
  [allowedExtensions |-> exts, maxFileSize |-> max,
   imageLoaded |-> loaded, imageUpload |-> upload,
   imageUploaded |-> uploaded, imageUploadError |-> uploadError]

NoCalls ==
  [imageLoaded |-> {}, imageUpload |-> {}, imageUploaded |-> {},
   imageUploadError |-> {}]

InitRest ==
  /\ state = constructor
  /\ blip = FALSE
  /\ timers = <<>>
  /\ reads = {}
  /\ uploads = {}
  /\ calls = NoCalls
  /\ sels = <<>>
  /\ sinceError = ERROR_CLEAR_DELAY

Init ==
  /\ \E l, u, d, x \in BOOLEAN :
        props = Props(defaultProps.allowedExtensions, defaultProps.maxFileSize,
                      l, u, d, x)
  /\ InitRest

---------------------------------------------------------------------------
(* The handlers.                                                           *)

\* The invocations of the callback fn made for selection sel.
CallsOf(fn, sel) == {c \in calls[fn] : c.sel = sel}

\* calls with one more invocation of the callback fn, for selection sel: n
\* counts the invocations of fn for sel, and issued is this.state with the
\* setState calls made before the invocation, in the same task, applied
Call(fn, sel, arg, issued) ==
  [calls EXCEPT ![fn] = @ \cup {[sel |-> sel, arg |-> arg, issued |-> issued,
                                  n |-> Cardinality(CallsOf(fn, sel)) + 1]}]

\* errorTextOf without the case of NO_FILE_ERROR_CODE
errorTextOfNoFileCaseMissing(errorCode) ==
  CASE errorCode = BAD_EXTENSION_ERROR_CODE -> "Bad file type"
    [] errorCode = TOO_BIG_ERROR_CODE       -> "Too big"
    [] errorCode = UPLOADING_ERROR_CODE     -> "Error while uploading"
    [] OTHER                                -> "Unknown error"

\* errorTextOf without the case of UPLOADING_ERROR_CODE
errorTextOfUploadingCaseMissing(errorCode) ==
  CASE errorCode = NO_FILE_ERROR_CODE       -> "No file selected"
    [] errorCode = BAD_EXTENSION_ERROR_CODE -> "Bad file type"
    [] errorCode = TOO_BIG_ERROR_CODE       -> "Too big"
    [] OTHER                                -> "Unknown error"

errorTextOf(errorCode) ==
  CASE errorCode = NO_FILE_ERROR_CODE       -> "No file selected"
    [] errorCode = BAD_EXTENSION_ERROR_CODE -> "Bad file type"
    [] errorCode = TOO_BIG_ERROR_CODE       -> "Too big"
    [] errorCode = UPLOADING_ERROR_CODE     -> "Error while uploading"
    [] OTHER                                -> "Unknown error"

\* handleError: the state update with its callback pending, and the timer
handleError(errorCode) ==
  /\ state' = [state EXCEPT !.hasError = TRUE,
                            !.errorText = errorTextOf(errorCode),
                            !.isUploading = TRUE]
  /\ blip' = TRUE
  /\ timers' = Append(timers, ERROR_CLEAR_DELAY)
  /\ sinceError' = 0

\* handleErrorCallback without its setState
handleErrorCallbackNoReset ==
  /\ blip
  /\ blip' = FALSE
  /\ UNCHANGED <<props, state, timers, reads, uploads, calls, sels, sinceError>>

\* the callback of the setState of handleError
handleErrorCallback ==
  /\ blip
  /\ state' = [state EXCEPT !.isUploading = FALSE]
  /\ blip' = FALSE
  /\ UNCHANGED <<props, timers, reads, uploads, calls, sels, sinceError>>

\* handleErrorTimeout clearing hasError and leaving errorText
handleErrorTimeoutKeepsText ==
  /\ ~blip
  /\ timers # <<>>
  /\ Head(timers) = 0
  /\ timers' = Tail(timers)
  /\ state' = [state EXCEPT !.hasError = FALSE]
  /\ UNCHANGED <<props, blip, reads, uploads, calls, sels, sinceError>>

\* the callback given to setTimeout by handleError; timers of equal delay
\* run in the order they were set
handleErrorTimeout ==
  /\ ~blip
  /\ timers # <<>>
  /\ Head(timers) = 0
  /\ timers' = Tail(timers)
  /\ state' = [state EXCEPT !.hasError = FALSE, !.errorText = ""]
  /\ UNCHANGED <<props, blip, reads, uploads, calls, sels, sinceError>>

\* one second passes; time is counted while a timer is pending
Tick ==
  /\ ~blip
  /\ timers # <<>>
  /\ timers' = [i \in 1..Len(timers) |->
                  IF timers[i] > 0 THEN timers[i] - 1 ELSE 0]
  /\ sinceError' = IF sinceError < ERROR_CLEAR_DELAY THEN sinceError + 1
                   ELSE sinceError
  /\ UNCHANGED <<props, state, blip, reads, uploads, calls, sels>>

\* a promise returned by imageUpload for the file of selection sel: status
\* is "pending", "resolved" or "rejected", value is <<v>> once it settled
Promise(sel, file, status, value) ==
  [sel |-> sel, file |-> file, status |-> status, value |-> value]

Pending == {u \in uploads : u.status = "pending"}

\* the record of a selection event: the error code raised for it, 0 for none
Selection(e, code) == [event |-> e, error |-> code]

\* a FileReader made by readFile for the file of selection sel: result is
\* <<dataUrl>> once it has loaded
Reader(sel, file, result) == [sel |-> sel, file |-> file, result |-> result]

Reading == {r \in reads : r.result = Undefined}

\* the tests of handleFileSelected, in the order it makes them
NoFile(e) == ~e.list \/ e.files = <<>>

\* TooBig with the boundary excluded
TooBigAtBoundary(file) == file.size >= props.maxFileSize

TooBig(file) == file.size > props.maxFileSize

\* Dispatch with the upload skipped when the file is read for imageLoaded
DispatchEither(sel, file) ==
  /\ reads' = IF props.imageLoaded
              THEN reads \cup {Reader(sel, file, Undefined)}
              ELSE reads
  /\ IF props.imageUpload /\ ~props.imageLoaded
     THEN /\ state' = [state EXCEPT !.isUploading = TRUE]
          /\ uploads' = uploads \cup {Promise(sel, file, "pending", Undefined)}
          /\ calls' = Call("imageUpload", sel, file, state')
     ELSE UNCHANGED <<state, uploads, calls>>
  /\ UNCHANGED <<blip, timers, sinceError>>

\* the end of handleFileSelected, reached by a file that passed the tests
Dispatch(sel, file) ==
  /\ reads' = IF props.imageLoaded
              THEN reads \cup {Reader(sel, file, Undefined)}
              ELSE reads
  /\ IF props.imageUpload
     THEN /\ state' = [state EXCEPT !.isUploading = TRUE]
          /\ uploads' = uploads \cup {Promise(sel, file, "pending", Undefined)}
          /\ calls' = Call("imageUpload", sel, file, state')
     ELSE UNCHANGED <<state, uploads, calls>>
  /\ UNCHANGED <<blip, timers, sinceError>>

\* handleFileSelected testing the size before the extension
handleFileSelectedSizeFirst(e) ==
  /\ ~blip
  /\ render.input
  /\ Len(sels) < MaxSelections
  /\ UNCHANGED props
  /\ LET sel == Len(sels) + 1 IN
     IF NoFile(e) THEN
        /\ handleError(NO_FILE_ERROR_CODE)
        /\ sels' = Append(sels, Selection(e, NO_FILE_ERROR_CODE))
        /\ UNCHANGED <<reads, uploads, calls>>
     ELSE LET file == e.files[1] IN
       IF TooBig(file) THEN
          /\ handleError(TOO_BIG_ERROR_CODE)
          /\ sels' = Append(sels, Selection(e, TOO_BIG_ERROR_CODE))
          /\ UNCHANGED <<reads, uploads, calls>>
       ELSE IF ~hasExtension(file.name) THEN
          /\ handleError(BAD_EXTENSION_ERROR_CODE)
          /\ sels' = Append(sels, Selection(e, BAD_EXTENSION_ERROR_CODE))
          /\ UNCHANGED <<reads, uploads, calls>>
       ELSE
          /\ sels' = Append(sels, Selection(e, 0))
          /\ Dispatch(sel, file)

handleFileSelected(e) ==
  /\ ~blip
  /\ render.input
  /\ Len(sels) < MaxSelections
  /\ UNCHANGED props
  /\ LET sel == Len(sels) + 1 IN
     IF NoFile(e) THEN
        /\ handleError(NO_FILE_ERROR_CODE)
        /\ sels' = Append(sels, Selection(e, NO_FILE_ERROR_CODE))
        /\ UNCHANGED <<reads, uploads, calls>>
     ELSE LET file == e.files[1] IN
       IF ~hasExtension(file.name) THEN
          /\ handleError(BAD_EXTENSION_ERROR_CODE)
          /\ sels' = Append(sels, Selection(e, BAD_EXTENSION_ERROR_CODE))
          /\ UNCHANGED <<reads, uploads, calls>>
       ELSE IF TooBig(file) THEN
          /\ handleError(TOO_BIG_ERROR_CODE)
          /\ sels' = Append(sels, Selection(e, TOO_BIG_ERROR_CODE))
          /\ UNCHANGED <<reads, uploads, calls>>
       ELSE
          /\ sels' = Append(sels, Selection(e, 0))
          /\ Dispatch(sel, file)

\* readerOnload clearing the error as the timer of handleError does
readerOnloadClearsError(r, dataUrl) ==
  /\ ~blip
  /\ r \in Reading
  /\ reads' = (reads \ {r}) \cup {Reader(r.sel, r.file, <<dataUrl>>)}
  /\ calls' = Call("imageLoaded", r.sel, readFile(r.file, dataUrl), state)
  /\ state' = [state EXCEPT !.hasError = FALSE, !.errorText = ""]
  /\ UNCHANGED <<props, blip, timers, uploads, sels, sinceError>>

\* reader.onload of readFile, and the reaction that calls imageLoaded
readerOnload(r, dataUrl) ==
  /\ ~blip
  /\ r \in Reading
  /\ reads' = (reads \ {r}) \cup {Reader(r.sel, r.file, <<dataUrl>>)}
  /\ calls' = Call("imageLoaded", r.sel, readFile(r.file, dataUrl), state)
  /\ UNCHANGED <<props, state, blip, timers, uploads, sels, sinceError>>

\* the upload routine calls the reportProgress it was given
handleReportProgress(u, progress) ==
  /\ ~blip
  /\ u \in Pending
  /\ state' = [state EXCEPT !.progress = <<progress>>]
  /\ UNCHANGED <<props, blip, timers, reads, uploads, calls, sels, sinceError>>

\* uploadResolved calling imageUploaded before it updates the state
uploadResolvedCallbackFirst(u, resp, throws) ==
  /\ ~blip
  /\ u \in Pending
  /\ uploads' = (uploads \ {u}) \cup {Promise(u.sel, u.file, "resolved", <<resp>>)}
  /\ state' = [state EXCEPT !.progress = Undefined, !.isUploading = FALSE]
  /\ calls' =
       [calls EXCEPT
          !.imageUploaded =
             IF props.imageUploaded
             THEN Call("imageUploaded", u.sel, resp, state).imageUploaded ELSE @,
          !.imageUploadError =
             IF props.imageUploaded /\ throws /\ props.imageUploadError
             THEN Call("imageUploadError", u.sel, "thrown", state').imageUploadError
             ELSE @]
  /\ UNCHANGED <<props, blip, timers, reads, sels, sinceError>>

\* the promise of imageUpload resolves with resp: the reaction given to
\* then; when imageUploaded throws, the reaction given to catch runs too
uploadResolved(u, resp, throws) ==
  /\ ~blip
  /\ u \in Pending
  /\ uploads' = (uploads \ {u}) \cup {Promise(u.sel, u.file, "resolved", <<resp>>)}
  /\ state' = [state EXCEPT !.progress = Undefined, !.isUploading = FALSE]
  /\ calls' =
       [calls EXCEPT
          !.imageUploaded =
             IF props.imageUploaded
             THEN Call("imageUploaded", u.sel, resp, state').imageUploaded ELSE @,
          !.imageUploadError =
             IF props.imageUploaded /\ throws /\ props.imageUploadError
             THEN Call("imageUploadError", u.sel, "thrown", state').imageUploadError
             ELSE @]
  /\ UNCHANGED <<props, blip, timers, reads, sels, sinceError>>

\* uploadRejected without the update of isUploading
uploadRejectedKeepsUploading(u, error) ==
  /\ ~blip
  /\ u \in Pending
  /\ uploads' = (uploads \ {u}) \cup {Promise(u.sel, u.file, "rejected", <<error>>)}
  /\ calls' = IF props.imageUploadError
              THEN Call("imageUploadError", u.sel, error, state) ELSE calls
  /\ UNCHANGED <<props, state, blip, timers, reads, sels, sinceError>>

\* the promise of imageUpload rejects with error: the reaction given to catch
uploadRejected(u, error) ==
  /\ ~blip
  /\ u \in Pending
  /\ uploads' = (uploads \ {u}) \cup {Promise(u.sel, u.file, "rejected", <<error>>)}
  /\ state' = [state EXCEPT !.isUploading = FALSE]
  /\ calls' = IF props.imageUploadError
              THEN Call("imageUploadError", u.sel, error, state') ELSE calls
  /\ UNCHANGED <<props, blip, timers, reads, sels, sinceError>>


---------------------------------------------------------------------------
(* The component in use: any sequence of selections, reads, uploads and    *)
(* timers, under the default allow-list and maximum size.                  *)

Events ==
  {NoFileList,
   EventOf(File(CatPng, DefaultMaxFileSize)),
   EventOf(File(PhotoPNG, DefaultMaxFileSize + 1)),
   EventOf(File(PhotoGif, 6000000))}

Next ==
  \/ \E e \in Events : handleFileSelected(e)
  \/ handleErrorCallback
  \/ handleErrorTimeout
  \/ Tick
  \/ \E r \in Reading : readerOnload(r, CatDataUrl)
  \/ \E u \in Pending, p \in Progresses : handleReportProgress(u, p)
  \/ \E u \in Pending, resp \in Responses, throws \in BOOLEAN :
        uploadResolved(u, resp, throws)
  \/ \E u \in Pending, error \in Rejections : uploadRejected(u, error)

Spec == Init /\ [][Next]_vars

\* the promise of a pending upload settles, either way
UploadSettles ==
  \/ \E u \in Pending, resp \in Responses, throws \in BOOLEAN :
        uploadResolved(u, resp, throws)
  \/ \E u \in Pending, error \in Rejections : uploadRejected(u, error)

\* the component in use when every promise of imageUpload settles, time
\* passes, every timer set by handleError fires and the callback React was
\* given by setState is run
FairSpec ==
  /\ Init /\ [][Next]_vars
  /\ WF_vars(UploadSettles)
  /\ WF_vars(Tick)
  /\ WF_vars(handleErrorTimeout)
  /\ WF_vars(handleErrorCallback)

---------------------------------------------------------------------------
(* Validation alone: one selection event under every allow-list, maximum   *)
(* size, file name and file size of the bounded sets.                      *)

ExtChars  == {"g", "G", "."}
ExtLists  == SeqsUpTo(SeqsUpTo(ExtChars, MaxExtLen), MaxExts)
MaxSizes  == {DefaultMaxFileSize, 1000}
FileNames == SeqsUpTo(ExtChars, MaxNameLen)
FileSizes(max) == {0, max - 1, max, max + 1, 6000000}

ValidationInit ==
  /\ \E exts \in ExtLists, max \in MaxSizes, c \in BOOLEAN :
        props = Props(exts, max, c, c, c, c)
  /\ InitRest

ValidationEvents ==
  {NoFileList, EmptyList}
    \cup {EventOf(File(n, s)) : n \in FileNames, s \in FileSizes(props.maxFileSize)}

ValidationNext ==
  \/ sels = <<>> /\ \E e \in ValidationEvents : handleFileSelected(e)
  \/ handleErrorCallback

ValidationSpec == ValidationInit /\ [][ValidationNext]_vars

---------------------------------------------------------------------------
(* readFile alone: one selected file of every name of the bounded set,     *)
(* read into every data URL of the platform.                               *)

NameChars == {"c", "$", "&", "'"}
ReadNames == {CatPng} \cup {p \o DotPng : p \in SeqsUpTo(NameChars, MaxPrefixLen)}

ReadInit ==
  /\ props = Props(defaultProps.allowedExtensions, defaultProps.maxFileSize,
                   TRUE, FALSE, FALSE, FALSE)
  /\ InitRest

ReadNext ==
  \/ sels = <<>> /\ \E n \in ReadNames : handleFileSelected(EventOf(File(n, 3)))
  \/ \E r \in Reading, d \in DataUrls : readerOnload(r, d)

ReadSpec == ReadInit /\ [][ReadNext]_vars


---------------------------------------------------------------------------
(* handleError alone: the method called with every error code of the       *)
(* bounded set, at most MaxSelections times, with its callback and timers. *)

ErrorCodes == 1..MaxErrorCode

\* a call of handleError(errorCode) that is not made by handleFileSelected;
\* it is recorded in sels as a selection without a file list
raiseError(errorCode) ==
  /\ ~blip
  /\ Len(sels) < MaxSelections
  /\ handleError(errorCode)
  /\ sels' = Append(sels, Selection(NoFileList, errorCode))
  /\ UNCHANGED <<props, reads, uploads, calls>>

ErrorInit ==
  /\ props = Props(defaultProps.allowedExtensions, defaultProps.maxFileSize,
                   FALSE, FALSE, FALSE, FALSE)
  /\ InitRest

ErrorNext ==
  \/ \E code \in ErrorCodes : raiseError(code)
  \/ handleErrorCallback
  \/ handleErrorTimeout
  \/ Tick

ErrorSpec == ErrorInit /\ [][ErrorNext]_vars

---------------------------------------------------------------------------
(* The claims.                                                             *)

HasFile(e) == e.list /\ e.files # <<>>

\* name ends, letter case ignored, with some entry of the allow-list
SuffixMatch(name) ==
  \E k \in 1..Len(props.allowedExtensions) :
     EndsWithI(name, props.allowedExtensions[k])

\* C1: every selection is classified by the first test it fails, in the
\* order no file, extension, size (so a file failing both the extension and
\* the size test is BadExtension), and a selection that raised an error has
\* no reader, no upload promise and no callback invocation to its name.
C1_OnlyValidSelectionsDispatch ==
  \A i \in 1..Len(sels) :
     LET e == sels[i].event IN
     /\ sels[i].error =
          (IF ~HasFile(e) THEN NO_FILE_ERROR_CODE
           ELSE IF ~hasExtension(e.files[1].name) THEN BAD_EXTENSION_ERROR_CODE
           ELSE IF e.files[1].size > props.maxFileSize THEN TOO_BIG_ERROR_CODE
           ELSE 0)
     /\ sels[i].error # 0 =>
          /\ \A fn \in DOMAIN calls : CallsOf(fn, i) = {}
          /\ \A r \in reads : r.sel # i
          /\ \A u \in uploads : u.sel # i

\* a file with a bad extension and an excessive size was rejected, with
\* every callback configured, and an upload ran for another selection
C1_Witness ==
  /\ props.imageLoaded /\ props.imageUpload
  /\ props.imageUploaded /\ props.imageUploadError
  /\ ~blip
  /\ calls.imageUploaded # {}
  /\ \E i \in 1..Len(sels) :
        /\ sels[i].error = BAD_EXTENSION_ERROR_CODE
        /\ sels[i].event.files[1].size > props.maxFileSize

\* C2: a selected file is rejected with code 2 exactly when its name does
\* not end, letter case ignored, with an entry of allowedExtensions.
C2_ExtensionAcceptedIffSuffix ==
  \A i \in 1..Len(sels) :
     HasFile(sels[i].event) =>
        (sels[i].error = BAD_EXTENSION_ERROR_CODE
           <=> ~SuffixMatch(sels[i].event.files[1].name))

C4_NoFileIsErrorOne ==
  \A i \in 1..Len(sels) :
     ~HasFile(sels[i].event) =>
        /\ sels[i].error = NO_FILE_ERROR_CODE
        /\ state.hasError
        /\ state.errorText = "No file selected"
        /\ calls = NoCalls /\ reads = {} /\ uploads = {}

\* an event with an empty file list was rejected under an empty allow-list
\* with the callbacks configured
C4_Witness ==
  /\ props.allowedExtensions = <<>>
  /\ props.imageUpload
  /\ ~blip
  /\ \E i \in 1..Len(sels) : sels[i].event = EmptyList

\* C5: a valid selection with imageLoaded and imageUpload configured calls
\* imageUpload once, in the handler, and imageLoaded once, when its reader
\* has loaded; while the reader has not loaded its load event can be
\* handled, with the upload promise pending, resolved or rejected.
C5_LoadedAndUploadOnceEach ==
  \A i \in 1..Len(sels) :
     (sels[i].error = 0 /\ props.imageLoaded /\ props.imageUpload) =>
        /\ Cardinality(CallsOf("imageUpload", i)) = 1
        /\ Cardinality({u \in uploads : u.sel = i}) = 1
        /\ Cardinality({r \in reads : r.sel = i}) = 1
        /\ \A r \in reads : r.sel = i =>
              IF r.result = Undefined
              THEN /\ CallsOf("imageLoaded", i) = {}
                   /\ ~blip => ENABLED readerOnload(r, CatDataUrl)
              ELSE Cardinality(CallsOf("imageLoaded", i)) = 1

\* imageLoaded was called for a selection whose upload is still pending,
\* and for another whose upload was rejected
C5_Witness ==
  /\ props.imageLoaded /\ props.imageUpload
  /\ \E u \in uploads :
        u.status = "pending" /\ CallsOf("imageLoaded", u.sel) # {}
  /\ \E u \in uploads :
        u.status = "rejected" /\ CallsOf("imageLoaded", u.sel) # {}

\* the step in which the promise u is rejected with v
Rejects(u, v) == Promise(u.sel, u.file, "rejected", <<v>>) \in uploads'

\* C6: when an upload promise rejects with v, imageUploadError (if
\* configured) is called once with v, isUploading is false and the view is
\* Idle.
C6_RejectionReturnsToIdle ==
  [][\A u \in Pending, v \in Rejections :
        Rejects(u, v) =>
          /\ ~state'.isUploading
          /\ View' = "Idle"
          /\ props.imageUploadError =>
                /\ CallsOf("imageUploadError", u.sel) = {}
                /\ \E c \in calls'.imageUploadError :
                      /\ c.sel = u.sel /\ c.arg = v
                      /\ calls'.imageUploadError = calls.imageUploadError \cup {c}]_vars

\* C7: a call of handleError sets hasError at once, and hasError becomes
\* false only when 5 seconds have passed since the last call of handleError.
C7_ErrorShownForFiveSeconds ==
  [][/\ Len(timers') > Len(timers) => state'.hasError
     /\ (state.hasError /\ ~state'.hasError) => sinceError >= ERROR_CLEAR_DELAY]_vars

\* C8: imageUploaded is called for the resolved promises alone, once, with
\* the value the promise resolved with, and after progress was set to
\* undefined and isUploading to false.
C8_UploadedCalledAfterStateUpdate ==
  \A u \in uploads :
     IF u.status = "resolved" /\ props.imageUploaded
     THEN /\ Cardinality(CallsOf("imageUploaded", u.sel)) = 1
          /\ \A c \in CallsOf("imageUploaded", u.sel) :
                /\ c.arg = u.value[1]
                /\ c.issued.isUploading = FALSE
                /\ c.issued.progress = Undefined
     ELSE CallsOf("imageUploaded", u.sel) = {}

\* two uploads resolved, with different values, and imageUploaded was called
C8_Witness ==
  /\ \E c \in calls.imageUploaded : c.arg = "url1"
  /\ \E c \in calls.imageUploaded : c.arg = "url2"

\* C9: hasError is true exactly when errorText is not the empty string.
C9_ErrorFlagAndTextTogether ==
  state.hasError <=> state.errorText # ""

\* an error was raised and its timer has cleared it
C9_Witness ==
  /\ sels # <<>>
  /\ sels[1].error # 0
  /\ timers = <<>>
  /\ ~state.hasError

\* C10: imageLoaded is given the data URL of the reader with ";name=" and
\* the file name inserted in front of its ";base64" marker.
C10_NameInsertedAtMarker ==
  \A c \in calls.imageLoaded :
     \A r \in reads : r.sel = c.sel =>
           LET d   == r.result[1]
               pos == IndexOf(d, Base64Marker)
           IN  /\ c.arg.file = r.file
               /\ c.arg.dataUrl =
                     SubSeq(d, 1, pos - 1)
                       \o NameMarker \o r.file.name \o Base64Marker
                       \o SubSeq(d, pos + Len(Base64Marker), Len(d))

\* the text the specification gives for an error code
TextOfCode(code) ==
  IF code = 1 THEN "No file selected"
  ELSE IF code = 2 THEN "Bad file type"
  ELSE IF code = 3 THEN "Too big"
  ELSE IF code = 4 THEN "Error while uploading"
  ELSE "Unknown error"

\* C11: a call of handleError sets hasError with the text of its code (the
\* texts of 1, 2, 3 and 4, "Unknown error" for any other code) and sets
\* isUploading; its callback sets isUploading back to false, and the view is
\* then Error and shows the text of the error raised last.
C11_ErrorTextOfLastError ==
  [][/\ Len(sels') > Len(sels) /\ sels'[Len(sels')].error # 0 =>
          /\ ~state.isUploading /\ state'.isUploading
          /\ state'.hasError
          /\ state'.errorText = TextOfCode(sels'[Len(sels')].error)
     /\ blip /\ ~blip' =>
          /\ ~state'.isUploading
          /\ View' = "Error"
          /\ renderChildren'.value = TextOfCode(sels[Len(sels)].error)]_vars

\* the text of code 4 is shown after the text of an unknown code was
C11_Witness ==
  /\ ~blip
  /\ Len(sels) = 2
  /\ sels[1].error = MaxErrorCode
  /\ sels[2].error = UPLOADING_ERROR_CODE
  /\ View = "Error"
  /\ state.errorText = "Error while uploading"

\* the promise u resolves with v in this step
Resolves(u, v) == Promise(u.sel, u.file, "resolved", <<v>>) \in uploads'

\* this step handles a selection that raised no error, imageUpload configured
SelectsForUpload ==
  /\ Len(sels') > Len(sels)
  /\ sels'[Len(sels')].error = 0
  /\ props.imageUpload

\* C12: the view follows the state machine from every state the trigger
\* occurs in: a valid selection with imageUpload configured gives Uploading;
\* the resolution of that upload gives Idle; the callback of an error raised
\* for an invalid or missing file gives Error; the timeout gives Idle from
\* Error.
C12_ViewFollowsStateMachine ==
  [][/\ SelectsForUpload => View' = "Uploading"
     /\ (\E u \in Pending, v \in Responses : Resolves(u, v)) =>
          View = "Uploading" /\ View' = "Idle"
     /\ blip /\ ~blip' => View' = "Error"
     /\ View = "Error" /\ Len(timers') < Len(timers) => View' = "Idle"]_vars

\* C13: at most one promise of imageUpload is pending; while one is pending
\* the button is disabled, the file input is not rendered, no selection event
\* can be handled, and neither handleError nor its callback is under way.
C13_NoSelectionDuringUpload ==
  /\ Cardinality(Pending) <= 1
  /\ Pending # {} =>
       /\ state.isUploading
       /\ render.disabled
       /\ ~render.input
       /\ ~blip
       /\ \A e \in Events : ~ENABLED handleFileSelected(e)

\* an upload is pending, and the bound on the selections is not what keeps
\* the next selection out
C13_Witness ==
  /\ Cardinality(Pending) = 1
  /\ Len(sels) < MaxSelections
  /\ ~ENABLED handleFileSelected(NoFileList)

\* C14: outside the blip of handleError, isUploading is true exactly while a
\* promise returned by imageUpload is pending; it is false whenever
\* imageUpload is not configured and once every promise has settled.
C14_IsUploadingIffPending ==
  ~blip =>
    /\ state.isUploading <=> Pending # {}
    /\ ~props.imageUpload => ~state.isUploading
    /\ (\A u \in uploads : u.status # "pending") => ~state.isUploading

\* a second upload is pending after the first one rejected
C14_Witness ==
  /\ ~blip
  /\ state.isUploading
  /\ \E u \in uploads : u.status = "rejected"
  /\ \E u \in uploads : u.status = "pending"

C16_ViewIsFunctionOfState ==
  /\ render.disabled <=> state.isUploading
  /\ render.input <=> ~state.isUploading
  /\ render.children.kind = "progress" <=> state.isUploading
  /\ render.children.kind = "error" <=> (state.hasError /\ ~state.isUploading)
  /\ render.color = "secondary" => (state.hasError /\ ~state.isUploading)

\* neither uploading nor showing an error
AtRest == ~state.isUploading /\ ~state.hasError

\* C17: as long as a promise of imageUpload stays pending isUploading stays
\* true, whatever else happens; when every promise settles and every timer
\* fires, the component is again and again at rest (isUploading false and
\* hasError false); and at rest the file input is rendered and the button
\* enabled, so that the next selection can be made.
C17_NoUploadTimeoutAndReturnsToRest ==
  /\ [][(\E u \in Pending : u \in uploads') =>
          state.isUploading /\ state'.isUploading]_vars
  /\ []<>AtRest
  /\ [](AtRest => render.input /\ ~render.disabled /\ ~blip)

\* at rest again after an error was shown and an upload started during it
\* has settled
C17_Witness ==
  /\ AtRest
  /\ Len(sels) = 2 /\ sels[1].error # 0 /\ sels[2].error = 0
  /\ uploads # {} /\ Pending = {}
  /\ timers = <<>>

\* C18: imageUploaded is called only for a promise that resolved,
\* imageUploadError only for a promise that rejected, each at most once, and
\* never both for the same upload, a resolved promise whose imageUploaded
\* callback throws included.
C18_ExactlyOneOutcomeCallback ==
  \A u \in uploads :
    /\ CallsOf("imageUploaded", u.sel) # {} => u.status = "resolved"
    /\ CallsOf("imageUploadError", u.sel) # {} => u.status = "rejected"
    /\ Cardinality(CallsOf("imageUploaded", u.sel)) <= 1
    /\ Cardinality(CallsOf("imageUploadError", u.sel)) <= 1
    /\ ~(CallsOf("imageUploaded", u.sel) # {} /\ CallsOf("imageUploadError", u.sel) # {})

\* C19: in every state where isUploading is false and no promise of
\* imageUpload is pending, progress is undefined, after a promise resolved
\* and after one rejected; and a selection that starts an upload starts it
\* with progress undefined.
C19_NoStaleProgress ==
  [][/\ (~state'.isUploading /\ Pending' = {}) => state'.progress = Undefined
     /\ SelectsForUpload => state'.progress = Undefined]_vars

=============================================================================
